---- MODULE Spec2Model ----
\* A model of reconya's SQLite asset-inventory store (backend/db/sqlite.go):
\* the connection pool set up by ConnectToSQLite, the statement-by-statement
\* schema migration of InitializeSchema, ResetPortScanCooldowns, and the
\* store operations the schema's constraints decide.
EXTENDS Integers, Sequences, FiniteSets, TLC

VARIABLES
    connected,    \* ConnectToSQLite has returned a *sql.DB
    conns,        \* the pool's connections: [open, foreign_keys] of each
    tables,       \* names of the tables that exist in the database file
    added,        \* <<table, column>> pairs added by ALTER TABLE ... ADD COLUMN
    indexes,      \* index records [name, table, col, unique] that exist
    networks,     \* ids of the rows of networks
    devices,      \* rows of devices
    ports,        \* rows of ports
    web_services, \* rows of web_services
    vulnerabilities, \* rows of vulnerabilities
    geolocation_cache, \* rows of geolocation_cache
    slice,        \* the []models.Device a listing sorts
    workers,      \* the discovery workers: where each is and what its insert returned
    writer,       \* the caller that replaces a device's port set: where it is
    reads,        \* what the last reader saw of a device's ports while they were
                  \* replaced, for a replacement in a transaction and for one not
    run,          \* the InitializeSchema call under way: the statement it is at
    reset,        \* the ResetPortScanCooldowns call under way: the UPDATE it is at
    now,          \* the clock
    faultsLeft,   \* engine failures the environment may still cause
    lastOp        \* the last call: its name, arguments, return value

schemaVars == <<tables, added, indexes>>
rowVars == <<networks, devices, ports, web_services, vulnerabilities>>
procVars == <<workers, writer, reads>>
callVars == <<run, reset>>
sideVars == <<geolocation_cache, slice, workers, writer, reads>>
otherVars == <<sideVars, callVars>>
vars == <<connected, conns, tables, added, indexes, networks, devices, ports,
          web_services, vulnerabilities, geolocation_cache, slice, workers, writer,
          reads, run, reset, now, faultsLeft, lastOp>>

\* --------------------------------------------------------------- bounds

\* How many db.Exec calls the storage engine may fail, over a whole behaviour,
\* for a reason that is not in the schema (SQLITE_BUSY after the busy timeout,
\* an I/O error).
MaxFaults == 2

\* How many of the pool's connections the model opens.
MaxConns == 2

\* The last instant of the clock.
MaxTime == 2

\* The cool-down between two scans of one kind, which the scheduler configures.
Cooldown == 1

\* The longest time-to-live a geolocation result is stored with.
MaxTTL == 2

\* The longest device list a listing sorts.
MaxLen == 4

\* How many discovery workers find one address at the same time.
MaxWorkers == 2

\* db.SetMaxOpenConns(15)
MaxOpenConns == 15

\* ----------------------------------------------------------- input sets

DeviceIds == {"d1", "d2"}
IPv4s == {"10.0.0.1", "10.0.0.2"}
NetworkIds == {"n1"}
PortNumbers == {80}
\* The devices the web and vulnerability scanners report on.
ScannedDeviceIds == {"d1"}

\* The discovery workers, the device id each one made up for what it found,
\* and the address they all found.
Workers == 1..MaxWorkers
WorkerDeviceIds == <<"w1", "w2", "w3", "w4">>
RaceIPv4 == "10.0.0.1"

\* The port set a scan of a device found, which replaces the stored one.
NewPortNumbers == {22, 443}

GeoIPs == {"8.8.8.8", "1.1.1.1"}
GeoData == {"Berlin", "Oslo"}
GeoSources == {"api", "manual"}

\* IPv4 strings of device records, character by character: "10.0.0.1",
\* "10.0.0.2", "9.0.0.10", "invalid", "", "10.0.0.256", "10.0.0".
Addresses ==
    { <<"1", "0", ".", "0", ".", "0", ".", "1">>,
      <<"1", "0", ".", "0", ".", "0", ".", "2">>,
      <<"9", ".", "0", ".", "0", ".", "1", "0">>,
      <<"i", "n", "v", "a", "l", "i", "d">>,
      <<>>,
      <<"1", "0", ".", "0", ".", "0", ".", "2", "5", "6">>,
      <<"1", "0", ".", "0", ".", "0">> }

\* NULL in a TEXT column and in a TIMESTAMP column.
NullId == ""
Null == -1

\* --------------------------------------------------- the declared schema

\* uniq: the columns declared PRIMARY KEY or UNIQUE; fks: the table's
\* FOREIGN KEY (col) REFERENCES parent(id) clauses.
Table(name, cols, uniq, fks, fatal) ==
    [kind |-> "table", name |-> name, table |-> name, cols |-> cols, uniq |-> uniq,
     fks |-> fks, col |-> "", unique |-> FALSE, fatal |-> fatal]

Index(name, table, col, unique, fatal) ==
    [kind |-> "index", name |-> name, table |-> table, cols |-> {}, uniq |-> {},
     fks |-> {},
     col |-> col, unique |-> unique, fatal |-> fatal]

AddColumn(table, col, fatal) ==
    [kind |-> "column", name |-> col, table |-> table, cols |-> {}, uniq |-> {},
     fks |-> {},
     col |-> col, unique |-> FALSE, fatal |-> fatal]

\* CREATE TABLE IF NOT EXISTS networks; an error is returned to the caller.
NetworksTable == Table("networks", {"id", "cidr"}, {"id"}, {}, TRUE)

\* CREATE TABLE IF NOT EXISTS devices: the thirteen columns of the first
\* schema version; an error is returned to the caller.
DevicesTable ==
    Table("devices",
          {"id", "name", "ipv4", "mac", "vendor", "status", "network_id",
           "hostname", "created_at", "updated_at", "last_seen_online_at",
           "port_scan_started_at", "port_scan_ended_at"},
          {"id"},
          {<<"network_id", "networks">>}, TRUE)

\* A bug the migration could have: the index on ipv4 created without UNIQUE.
DevicesIPv4IndexPlainMut == Index("idx_devices_ipv4", "devices", "ipv4", FALSE, TRUE)

\* CREATE UNIQUE INDEX IF NOT EXISTS idx_devices_ipv4 ON devices(ipv4).
DevicesIPv4Index == Index("idx_devices_ipv4", "devices", "ipv4", TRUE, TRUE)

\* The two lookup indexes on devices.mac and devices.network_id.
DevicesLookupIndexes ==
    << Index("idx_devices_mac", "devices", "mac", FALSE, TRUE),
       Index("idx_devices_network_id", "devices", "network_id", FALSE, TRUE) >>

\* The three IPv6 indexes; an error is logged and the run goes on.
DevicesIPv6Indexes ==
    << Index("idx_devices_ipv6_link_local", "devices", "ipv6_link_local", FALSE, FALSE),
       Index("idx_devices_ipv6_unique_local", "devices", "ipv6_unique_local", FALSE, FALSE),
       Index("idx_devices_ipv6_global", "devices", "ipv6_global", FALSE, FALSE) >>

PortsTable ==
    Table("ports",
          {"id", "device_id", "number", "protocol", "state", "service"},
          {"id"},
          {<<"device_id", "devices">>}, TRUE)

EventLogsTable ==
    Table("event_logs",
          {"id", "type", "description", "device_id", "created_at", "updated_at"},
          {"id"},
          {}, TRUE)

SystemStatusTable ==
    Table("system_status",
          {"id", "network_id", "public_ip", "created_at", "updated_at"},
          {"id"},
          {<<"network_id", "networks">>}, TRUE)

LocalDevicesTable ==
    Table("local_devices",
          {"system_status_id", "name", "ipv4", "mac", "vendor", "status", "hostname"},
          {"system_status_id"},
          {<<"system_status_id", "system_status">>}, TRUE)

\* A bug the migration could have: the ADD COLUMN errors returned to the
\* caller like those of the tables.
DeviceColumnsFatalMut ==
    << AddColumn("devices", "web_scan_ended_at", TRUE),
       AddColumn("devices", "device_type", TRUE),
       AddColumn("devices", "os_name", TRUE),
       AddColumn("devices", "os_version", TRUE),
       AddColumn("devices", "os_family", TRUE),
       AddColumn("devices", "os_confidence", TRUE),
       AddColumn("devices", "comment", TRUE),
       AddColumn("devices", "ipv6_link_local", TRUE),
       AddColumn("devices", "ipv6_unique_local", TRUE),
       AddColumn("devices", "ipv6_global", TRUE),
       AddColumn("devices", "ipv6_addresses", TRUE) >>

\* ALTER TABLE devices ADD COLUMN ..., eleven statements; an error is logged
\* and the run goes on.
DeviceColumns ==
    << AddColumn("devices", "web_scan_ended_at", FALSE),
       AddColumn("devices", "device_type", FALSE),
       AddColumn("devices", "os_name", FALSE),
       AddColumn("devices", "os_version", FALSE),
       AddColumn("devices", "os_family", FALSE),
       AddColumn("devices", "os_confidence", FALSE),
       AddColumn("devices", "comment", FALSE),
       AddColumn("devices", "ipv6_link_local", FALSE),
       AddColumn("devices", "ipv6_unique_local", FALSE),
       AddColumn("devices", "ipv6_global", FALSE),
       AddColumn("devices", "ipv6_addresses", FALSE) >>

\* ALTER TABLE networks ADD COLUMN ..., nine statements; an error is logged
\* and the run goes on.
NetworkColumns ==
    << AddColumn("networks", "name", FALSE),
       AddColumn("networks", "description", FALSE),
       AddColumn("networks", "status", FALSE),
       AddColumn("networks", "last_scanned_at", FALSE),
       AddColumn("networks", "device_count", FALSE),
       AddColumn("networks", "created_at", FALSE),
       AddColumn("networks", "updated_at", FALSE),
       AddColumn("networks", "ipv6_prefix", FALSE),
       AddColumn("networks", "address_family", FALSE) >>

WebServicesTable ==
    Table("web_services",
          {"id", "device_id", "url", "title", "server", "status_code",
           "content_type", "size", "screenshot", "port", "protocol", "scanned_at"},
          {"id"},
          {<<"device_id", "devices">>}, TRUE)

WebServicesIndex ==
    Index("idx_web_services_device_id", "web_services", "device_id", FALSE, TRUE)

\* A bug the migration could have: geolocation_cache.ip declared without UNIQUE.
GeolocationCacheTablePlainMut ==
    Table("geolocation_cache",
          {"id", "ip", "city", "region", "country", "country_code", "latitude",
           "longitude", "timezone", "isp", "source", "created_at", "updated_at",
           "expires_at"},
          {"id"},
          {}, TRUE)

GeolocationCacheTable ==
    Table("geolocation_cache",
          {"id", "ip", "city", "region", "country", "country_code", "latitude",
           "longitude", "timezone", "isp", "source", "created_at", "updated_at",
           "expires_at"},
          {"id", "ip"},
          {}, TRUE)

GeolocationCacheIndexes ==
    << Index("idx_geolocation_cache_ip", "geolocation_cache", "ip", FALSE, TRUE),
       Index("idx_geolocation_cache_expires_at", "geolocation_cache", "expires_at",
             FALSE, TRUE) >>

VulnerabilitiesTable ==
    Table("vulnerabilities",
          {"id", "device_id", "target", "name", "description", "severity",
           "discovered_at"},
          {"id"},
          {<<"device_id", "devices">>}, TRUE)

VulnerabilitiesIndex ==
    Index("idx_vulnerabilities_device_id", "vulnerabilities", "device_id", FALSE, TRUE)

SettingsTable ==
    Table("settings",
          {"id", "user_id", "screenshots_enabled", "created_at", "updated_at"},
          {"id", "user_id"},
          {}, TRUE)

SettingsIndex == Index("idx_settings_user_id", "settings", "user_id", FALSE, TRUE)

\* The db.Exec calls of InitializeSchema, in the order the function makes them.
Migration ==
    << NetworksTable, DevicesTable, DevicesIPv4Index >>
    \o DevicesLookupIndexes
    \o DevicesIPv6Indexes
    \o << PortsTable, EventLogsTable, SystemStatusTable, LocalDevicesTable >>
    \o DeviceColumns
    \o NetworkColumns
    \o << WebServicesTable, WebServicesIndex, GeolocationCacheTable >>
    \o GeolocationCacheIndexes
    \o << VulnerabilitiesTable, VulnerabilitiesIndex, SettingsTable, SettingsIndex >>

NStmts == Len(Migration)
StmtIds == 1..NStmts

\* ------------------------------------------------- the storage engine

\* The schema in the database file. A table's CREATE TABLE columns come and go
\* with the table; `added` holds the columns ALTER TABLE added to it.
Schema(t, a, i) == [tables |-> t, added |-> a, indexes |-> i]

EmptySchema == Schema({}, {}, {})

TableStmts == {Migration[i] : i \in {j \in StmtIds : Migration[j].kind = "table"}}

BaseColumns(t) == UNION {s.cols : s \in {x \in TableStmts : x.name = t}}

HasColumn(st, t, c) ==
    t \in st.tables /\ (c \in BaseColumns(t) \/ <<t, c>> \in st.added)

\* Every <<table, column>> of the schema.
Columns(st) ==
    UNION {{<<t, c>> : c \in BaseColumns(t)} : t \in st.tables} \cup st.added

IndexNames(st) == {ix.name : ix \in st.indexes}

\* Two rows of the table agree on the column.
HasDuplicate(rows, col) ==
    col = "ipv4" /\ \E a, b \in rows : a # b /\ a.ipv4 = b.ipv4

\* A bug the migration could have: CREATE TABLE and CREATE INDEX written
\* without IF NOT EXISTS, so that an existing name is an error.
ExecNoIfNotExistsMut(s, st, rows, fault) ==
    IF fault THEN [ok |-> FALSE, st |-> st]
    ELSE IF s.kind = "table" THEN
        IF s.name \in st.tables THEN [ok |-> FALSE, st |-> st]
        ELSE [ok |-> TRUE,
              st |-> Schema(st.tables \cup {s.name}, st.added, st.indexes)]
    ELSE IF s.kind = "index" THEN
        IF \/ s.table \notin st.tables
           \/ s.name \in IndexNames(st)
           \/ ~HasColumn(st, s.table, s.col)
        THEN [ok |-> FALSE, st |-> st]
        ELSE [ok |-> TRUE,
              st |-> Schema(st.tables, st.added,
                            st.indexes \cup {[name |-> s.name, table |-> s.table,
                                              col |-> s.col, unique |-> s.unique]})]
    ELSE
        IF s.table \notin st.tables \/ HasColumn(st, s.table, s.col)
            THEN [ok |-> FALSE, st |-> st]
        ELSE [ok |-> TRUE,
              st |-> Schema(st.tables, st.added \cup {<<s.table, s.col>>},
                            st.indexes)]

\* One statement against the database: [ok, st]. `fault` is a failure of the
\* engine itself; the others are the errors SQLite raises from the schema:
\* CREATE ... IF NOT EXISTS is a no-op on an existing name, CREATE INDEX needs
\* its table and column (and no duplicate keys if UNIQUE), ADD COLUMN needs
\* the table and refuses a duplicate column name.
Exec(s, st, rows, fault) ==
    IF fault THEN [ok |-> FALSE, st |-> st]
    ELSE IF s.kind = "table" THEN
        IF s.name \in st.tables THEN [ok |-> TRUE, st |-> st]
        ELSE [ok |-> TRUE,
              st |-> Schema(st.tables \cup {s.name}, st.added, st.indexes)]
    ELSE IF s.kind = "index" THEN
        IF s.table \notin st.tables THEN [ok |-> FALSE, st |-> st]
        ELSE IF s.name \in IndexNames(st) THEN [ok |-> TRUE, st |-> st]
        ELSE IF ~HasColumn(st, s.table, s.col) THEN [ok |-> FALSE, st |-> st]
        ELSE IF s.unique /\ s.table = "devices" /\ HasDuplicate(rows, s.col)
            THEN [ok |-> FALSE, st |-> st]
        ELSE [ok |-> TRUE,
              st |-> Schema(st.tables, st.added,
                            st.indexes \cup {[name |-> s.name, table |-> s.table,
                                              col |-> s.col, unique |-> s.unique]})]
    ELSE
        IF s.table \notin st.tables \/ HasColumn(st, s.table, s.col)
            THEN [ok |-> FALSE, st |-> st]
        ELSE [ok |-> TRUE,
              st |-> Schema(st.tables, st.added \cup {<<s.table, s.col>>},
                            st.indexes)]

\* The schema a store has after statements 1..k of the migration were run on
\* an empty file: what a run that stopped at statement k + 1 left, and what
\* a binary whose migration ended there created.
RECURSIVE SchemaFrom(_, _, _)
SchemaFrom(i, k, st) ==
    IF i > k THEN st
    ELSE LET r == Exec(Migration[i], st, {}, FALSE)
         IN  IF r.ok THEN SchemaFrom(i + 1, k, r.st) ELSE SchemaFrom(i + 1, k, st)

SchemaAfter(k) == SchemaFrom(1, k, EmptySchema)

\* Every table, column and index the migration declares.
DeclaredSchema ==
    Schema({Migration[i].name : i \in {j \in StmtIds : Migration[j].kind = "table"}},
           {<<Migration[i].table, Migration[i].col>> :
                i \in {j \in StmtIds : Migration[j].kind = "column"}},
           {[name |-> Migration[i].name, table |-> Migration[i].table,
             col |-> Migration[i].col, unique |-> Migration[i].unique] :
                i \in {j \in StmtIds : Migration[j].kind = "index"}})

\* ------------------------------------------------------ the connections

ConnIds == 1..(IF MaxConns < MaxOpenConns THEN MaxConns ELSE MaxOpenConns)

Closed == [open |-> FALSE, foreign_keys |-> FALSE]

\* A connection as sql.Open's DSN makes it: _journal, _timeout and
\* _busy_timeout are given, _foreign_keys is not, so the driver leaves
\* foreign-key enforcement at SQLite's default, off.
NewConn == [open |-> TRUE, foreign_keys |-> FALSE]

\* The PRAGMA statements of ConnectToSQLite, in order.
Pragmas ==
    << "journal_mode=WAL", "busy_timeout=30000", "synchronous=NORMAL",
       "cache_size=10000", "foreign_keys=ON", "temp_store=MEMORY",
       "mmap_size=268435456" >>

\* One PRAGMA on the connection that db.Exec ran it on: foreign_keys is a
\* setting of that connection alone; the others do not bear on the model.
ExecPragma(conn, pragma) ==
    IF pragma = "foreign_keys=ON" THEN [conn EXCEPT !.foreign_keys = TRUE] ELSE conn

RECURSIVE ExecPragmas(_, _)
ExecPragmas(conn, i) ==
    IF i > Len(Pragmas) THEN conn ELSE ExecPragmas(ExecPragma(conn, Pragmas[i]), i + 1)

\* ---------------------------------------------------- history of calls

CurrentSchema == Schema(tables, added, indexes)

NoArgs == [id |-> NullId, ipv4 |-> NullId, ref |-> NullId, number |-> 0]

Args(id, ipv4, ref, number) ==
    [id |-> id, ipv4 |-> ipv4, ref |-> ref, number |-> number]

\* What a query returned; for a write, the row it found in its way.
NoOut == [hit |-> FALSE, data |-> NullId, source |-> NullId]

\* A call that is not a migration run; the schema a call found is recorded
\* for InitializeSchema alone.
Call(op, err, faults, args) ==
    [op |-> op, err |-> err, at |-> 0, faults |-> faults, executed |-> <<>>,
     failed |-> {}, pre |-> EmptySchema, args |-> args, time |-> now,
     out |-> NoOut]

NoOp == [op |-> "none", err |-> "nil", at |-> 0, faults |-> {}, executed |-> <<>>,
         failed |-> {}, pre |-> EmptySchema, args |-> NoArgs, time |-> 0,
         out |-> NoOut]

Record(call) == lastOp' = call

\* The engine failures one call may meet: none, or, while the environment has
\* failures left, one at any one of the call's n statements.
FaultChoices(n) == {{}} \cup (IF faultsLeft > 0 THEN {{i} : i \in 1..n} ELSE {})

\* --------------------------------------------------------------- actions

\* ConnectToSQLite(dbPath): sql.Open, the pool's limits, then each PRAGMA by
\* db.Exec. The calls are sequential, so the pool runs every one of them on its
\* one idle connection; an error of a PRAGMA is returned and no handle is.
ConnectToSQLite(faults) ==
    /\ ~connected
    /\ IF faults = {}
       THEN /\ connected' = TRUE
            /\ conns' = [c \in ConnIds |->
                            IF c = 1 THEN ExecPragmas(NewConn, 1) ELSE Closed]
       ELSE UNCHANGED <<connected, conns>>
    /\ faultsLeft' = faultsLeft - Cardinality(faults)
    /\ Record(Call("ConnectToSQLite",
                   IF faults = {} THEN "nil" ELSE "StorageError", faults, NoArgs))
    /\ UNCHANGED <<otherVars, schemaVars, rowVars, now>>

\* database/sql opens a further connection, up to MaxOpenConns, when a call
\* finds every open one in use by concurrent callers or none left open.
PoolOpen(c) ==
    /\ connected
    /\ ~conns[c].open
    /\ conns' = [conns EXCEPT ![c] = NewConn]
    /\ Record(Call("PoolOpen", "nil", {}, Args(NullId, NullId, NullId, c)))
    /\ UNCHANGED <<otherVars, connected, schemaVars, rowVars, now, faultsLeft>>

\* database/sql closes a connection that is older than ConnMaxLifetime or idle
\* beyond MaxIdleConns.
PoolClose(c) ==
    /\ connected
    /\ conns[c].open
    /\ conns' = [conns EXCEPT ![c] = Closed]
    /\ Record(Call("PoolClose", "nil", {}, Args(NullId, NullId, NullId, c)))
    /\ UNCHANGED <<otherVars, connected, schemaVars, rowVars, now, faultsLeft>>

\* No InitializeSchema call is under way.
NoRun == [pc |-> 0, faults |-> {}, failed |-> {}, pre |-> EmptySchema]

\* InitializeSchema(db) is called: it is at its first statement and has
\* changed nothing yet. `faults` are the statements the engine will fail. The
\* function takes no lock and opens no transaction, so the callers of the
\* store's other operations go on between its statements.
InitializeSchema(faults) ==
    /\ connected
    /\ run.pc = 0
    /\ run' = [pc |-> 1, faults |-> faults, failed |-> {}, pre |-> CurrentSchema]
    /\ faultsLeft' = faultsLeft - Cardinality(faults)
    /\ UNCHANGED <<sideVars, reset, connected, conns, schemaVars, rowVars, now, lastOp>>

\* The call under way runs its next db.Exec, a statement that commits by
\* itself, and checks its error: the error of a fatal statement is returned at
\* once, any other error is logged, and after the last statement nil is
\* returned. The return records err (nil, or the error of statement `at`), the
\* statements executed and those that failed, and the schema the call found.
ExecStatement ==
    /\ run.pc \in StmtIds
    /\ \E r \in {Exec(Migration[run.pc], CurrentSchema, devices, run.pc \in run.faults)} :
        LET i == run.pc
            failed == run.failed \cup (IF r.ok THEN {} ELSE {i})
            stop == ~r.ok /\ Migration[i].fatal
        IN  /\ tables' = r.st.tables
            /\ added' = r.st.added
            /\ indexes' = r.st.indexes
            /\ IF stop \/ i = NStmts
               THEN /\ run' = NoRun
                    /\ Record([op |-> "InitializeSchema",
                               err |-> IF stop THEN "SchemaError" ELSE "nil",
                               at |-> IF stop THEN i ELSE 0, faults |-> run.faults,
                               executed |-> [k \in 1..i |-> k], failed |-> failed,
                               pre |-> run.pre, args |-> NoArgs, time |-> now,
                               out |-> NoOut])
               ELSE /\ run' = [run EXCEPT !.pc = i + 1, !.failed = failed]
                    /\ UNCHANGED lastOp
    /\ UNCHANGED <<sideVars, reset, connected, conns, rowVars, now, faultsLeft>>

\* ----------------------------------------------- the store's operations

\* The FOREIGN KEY (col) REFERENCES parent(id) clause of a table that exists.
HasForeignKey(t, col, parent) ==
    /\ t \in tables
    /\ \E s \in TableStmts : s.name = t /\ <<col, parent>> \in s.fks

\* A UNIQUE index on the column exists.
UniqueOn(t, col) == \E ix \in indexes : ix.table = t /\ ix.col = col /\ ix.unique

DeviceIdsIn(rows) == {d.id : d \in rows}

\* SQLite checks a foreign key only on a connection whose foreign_keys is ON:
\* a child row with a non-NULL reference needs its parent row.
ForeignKeyViolated(c, t, col, parent, ref, parentIds) ==
    /\ conns[c].foreign_keys
    /\ HasForeignKey(t, col, parent)
    /\ ref # NullId
    /\ ref \notin parentIds

NewDevice(id, ipv4, net) ==
    [id |-> id, ipv4 |-> ipv4, network_id |-> net, status |-> "online",
     updated_at |-> now, port_scan_started_at |-> Null,
     port_scan_ended_at |-> Null, web_scan_ended_at |-> Null]

\* The result of a statement that writes: nil and the new rows, or the error
\* and the rows as they were.
Outcome(err, new, old) == [err |-> err, rows |-> IF err = "nil" THEN new ELSE old]

\* Network upsert-by-id.
InsertNetwork(c, id) ==
    /\ connected /\ conns[c].open
    /\ \E err \in {IF "networks" \in tables THEN "nil" ELSE "StorageError"} :
        /\ networks' = IF err = "nil" THEN networks \cup {id} ELSE networks
        /\ Record(Call("InsertNetwork", err, {}, Args(id, NullId, NullId, 0)))
    /\ UNCHANGED <<otherVars, connected, conns, schemaVars, devices, ports, web_services,
                   vulnerabilities, now, faultsLeft>>

\* Device insert: a row with this id is updated in place, else a row is added.
\* The unique index on ipv4 refuses an ipv4 another row holds; the foreign key
\* on network_id is checked on a connection that enforces foreign keys.
InsertDeviceResult(c, id, ipv4, net) ==
    LET same == {d \in devices : d.id = id}
        others == devices \ same
        row == IF same = {} THEN NewDevice(id, ipv4, net)
               ELSE [(CHOOSE d \in same : TRUE) EXCEPT !.ipv4 = ipv4,
                                                       !.network_id = net,
                                                       !.updated_at = now]
        err == IF "devices" \notin tables THEN "StorageError"
               ELSE IF UniqueOn("devices", "ipv4") /\ \E o \in others : o.ipv4 = ipv4
                    THEN "ConflictError"
               ELSE IF ForeignKeyViolated(c, "devices", "network_id", "networks",
                                          net, networks)
                    THEN "ReferentialIntegrityError"
               ELSE "nil"
    IN  Outcome(err, others \cup {row}, devices)

InsertDevice(c, id, ipv4, net) ==
    /\ connected /\ conns[c].open
    /\ \E r \in {InsertDeviceResult(c, id, ipv4, net)} :
        /\ devices' = r.rows
        /\ Record(Call("InsertDevice", r.err, {}, Args(id, ipv4, net, 0)))
    /\ UNCHANGED <<otherVars, connected, conns, schemaVars, networks, ports, web_services,
                   vulnerabilities, now, faultsLeft>>

\* Device delete: with foreign keys enforced, a device that ports, web services
\* or vulnerabilities still reference cannot be deleted.
DeleteDeviceResult(c, id) ==
    LET referenced ==
            \/ HasForeignKey("ports", "device_id", "devices")
                 /\ \E p \in ports : p.device_id = id
            \/ HasForeignKey("web_services", "device_id", "devices")
                 /\ \E w \in web_services : w.device_id = id
            \/ HasForeignKey("vulnerabilities", "device_id", "devices")
                 /\ \E v \in vulnerabilities : v.device_id = id
        err == IF "devices" \notin tables THEN "StorageError"
               ELSE IF conns[c].foreign_keys /\ referenced
                    THEN "ReferentialIntegrityError"
               ELSE "nil"
    IN  Outcome(err, {d \in devices : d.id # id}, devices)

DeleteDevice(c, id) ==
    /\ connected /\ conns[c].open
    /\ \E r \in {DeleteDeviceResult(c, id)} :
        /\ devices' = r.rows
        /\ Record(Call("DeleteDevice", r.err, {}, Args(id, NullId, NullId, 0)))
    /\ UNCHANGED <<otherVars, connected, conns, schemaVars, networks, ports, web_services,
                   vulnerabilities, now, faultsLeft>>

\* Append-for-device into ports, web_services or vulnerabilities.
AppendResult(c, t, row, rows) ==
    LET err == IF t \notin tables THEN "StorageError"
               ELSE IF ForeignKeyViolated(c, t, "device_id", "devices",
                                          row.device_id, DeviceIdsIn(devices))
                    THEN "ReferentialIntegrityError"
               ELSE "nil"
    IN  Outcome(err, rows \cup {row}, rows)

InsertPort(c, dev, number) ==
    /\ connected /\ conns[c].open
    /\ \E r \in {AppendResult(c, "ports", [device_id |-> dev, number |-> number], ports)} :
        /\ ports' = r.rows
        /\ Record(Call("InsertPort", r.err, {}, Args(NullId, NullId, dev, number)))
    /\ UNCHANGED <<otherVars, connected, conns, schemaVars, networks, devices, web_services,
                   vulnerabilities, now, faultsLeft>>

InsertWebService(c, dev, port) ==
    /\ connected /\ conns[c].open
    /\ \E r \in {AppendResult(c, "web_services", [device_id |-> dev, port |-> port],
                              web_services)} :
        /\ web_services' = r.rows
        /\ Record(Call("InsertWebService", r.err, {}, Args(NullId, NullId, dev, port)))
    /\ UNCHANGED <<otherVars, connected, conns, schemaVars, networks, devices, ports,
                   vulnerabilities, now, faultsLeft>>

\* vulnerabilities.device_id is nullable.
InsertVulnerability(c, dev) ==
    /\ connected /\ conns[c].open
    /\ \E r \in {AppendResult(c, "vulnerabilities", [device_id |-> dev],
                              vulnerabilities)} :
        /\ vulnerabilities' = r.rows
        /\ Record(Call("InsertVulnerability", r.err, {}, Args(NullId, NullId, dev, 0)))
    /\ UNCHANGED <<otherVars, connected, conns, schemaVars, networks, devices, ports,
                   web_services, now, faultsLeft>>

\* ------------------------------------------------ discovery workers

\* A worker: idle, then it has looked the address up ("absent" or "present"),
\* then it is done; err is what its insert returned, "" if it made none.
IdleWorker == [pc |-> "idle", err |-> NullId]

\* A worker looks up the device that holds the address it found.
WorkerLookup(w) ==
    /\ connected
    /\ workers[w].pc = "idle"
    /\ \E found \in {IF "devices" \notin tables THEN "done"
                      ELSE IF \E d \in devices : d.ipv4 = RaceIPv4 THEN "present"
                      ELSE "absent"} :
        /\ workers' = [workers EXCEPT ![w].pc = found]
        /\ Record(Call("WorkerLookup",
                       IF found = "done" THEN "StorageError" ELSE "nil", {},
                       Args(WorkerDeviceIds[w], RaceIPv4, NullId, w)))
    /\ UNCHANGED <<callVars, connected, conns, schemaVars, rowVars, geolocation_cache, slice,
                   writer, reads, now, faultsLeft>>

\* A worker that found no device for the address inserts one under its own id,
\* through any open connection of the pool.
WorkerInsert(w, c) ==
    /\ connected /\ conns[c].open
    /\ workers[w].pc = "absent"
    /\ \E r \in {InsertDeviceResult(c, WorkerDeviceIds[w], RaceIPv4, NullId)} :
        /\ devices' = r.rows
        /\ workers' = [workers EXCEPT ![w] = [pc |-> "done", err |-> r.err]]
        /\ Record(Call("InsertDevice", r.err, {},
                       Args(WorkerDeviceIds[w], RaceIPv4, NullId, w)))
    /\ UNCHANGED <<callVars, connected, conns, schemaVars, networks, ports, web_services,
                   vulnerabilities, geolocation_cache, slice, writer, reads, now,
                   faultsLeft>>

\* A worker that found the device leaves it to the update path.
WorkerSkip(w) ==
    /\ workers[w].pc = "present"
    /\ workers' = [workers EXCEPT ![w].pc = "done"]
    /\ Record(Call("WorkerSkip", "nil", {}, Args(WorkerDeviceIds[w], RaceIPv4, NullId, w)))
    /\ UNCHANGED <<callVars, connected, conns, schemaVars, rowVars, geolocation_cache, slice,
                   writer, reads, now, faultsLeft>>

\* ------------------------------------------ replacing a device's ports

\* The caller that replaces the ports of a device: idle, or between its
\* statements. Inside a transaction its statements act on `view`, which the
\* commit makes the table; outside one each statement acts on the table.
IdleWriter == [pc |-> "idle", tx |-> FALSE, dev |-> NullId, view |-> {}, old |-> {},
               todo |-> {}]

\* The port numbers of a device's rows.
PortsOf(rows, dev) == {p.number : p \in {q \in rows : q.device_id = dev}}

\* A bug the engine could have: a reader sees what an open transaction of
\* another connection has written and not yet committed.
VisiblePortsDirtyMut ==
    IF writer.tx /\ writer.pc # "idle" THEN writer.view ELSE ports

\* The rows of ports a reader sees: the committed ones. What a transaction on
\* another connection has written is not visible before its commit.
VisiblePorts == ports

\* The caller starts to replace the ports of the device by NewPortNumbers,
\* inside a transaction (db.Begin) or not.
ReplaceBegin(dev, tx) ==
    /\ connected
    /\ writer.pc = "idle"
    /\ "ports" \in tables
    /\ dev \in DeviceIdsIn(devices)
    /\ writer' = [pc |-> "delete", tx |-> tx, dev |-> dev, view |-> ports,
                  old |-> PortsOf(ports, dev), todo |-> NewPortNumbers]
    /\ Record(Call("ReplaceBegin", "nil", {}, Args(dev, NullId, NullId, 0)))
    /\ UNCHANGED <<callVars, connected, conns, schemaVars, rowVars, geolocation_cache, slice,
                   workers, reads, now, faultsLeft>>

\* DELETE FROM ports WHERE device_id = dev.
ReplaceDelete ==
    /\ writer.pc = "delete"
    /\ IF writer.tx
       THEN /\ writer' = [writer EXCEPT
                            !.pc = "insert",
                            !.view = {p \in writer.view : p.device_id # writer.dev}]
            /\ UNCHANGED ports
       ELSE /\ writer' = [writer EXCEPT !.pc = "insert"]
            /\ ports' = {p \in ports : p.device_id # writer.dev}
    /\ Record(Call("DeletePorts", "nil", {}, Args(writer.dev, NullId, NullId, 0)))
    /\ UNCHANGED <<callVars, connected, conns, schemaVars, networks, devices, web_services,
                   vulnerabilities, geolocation_cache, slice, workers, reads, now,
                   faultsLeft>>

\* INSERT INTO ports of one port of the new set; after the last one a caller
\* without a transaction is done.
ReplaceInsert(n) ==
    /\ writer.pc = "insert"
    /\ n \in writer.todo
    /\ \E row \in {[device_id |-> writer.dev, number |-> n]},
          next \in {IF writer.todo = {n}
                    THEN (IF writer.tx THEN "commit" ELSE "idle")
                    ELSE "insert"} :
        IF writer.tx
        THEN /\ writer' = [writer EXCEPT !.pc = next, !.todo = @ \ {n},
                                         !.view = @ \cup {row}]
             /\ UNCHANGED ports
        ELSE /\ writer' = IF next = "idle" THEN IdleWriter
                          ELSE [writer EXCEPT !.todo = @ \ {n}]
             /\ ports' = ports \cup {row}
    /\ Record(Call("InsertPort", "nil", {}, Args(NullId, NullId, writer.dev, n)))
    /\ UNCHANGED <<callVars, connected, conns, schemaVars, networks, devices, web_services,
                   vulnerabilities, geolocation_cache, slice, workers, reads, now,
                   faultsLeft>>

\* tx.Commit(): what the transaction wrote becomes the table.
ReplaceCommit ==
    /\ writer.pc = "commit"
    /\ ports' = writer.view
    /\ writer' = IdleWriter
    /\ Record(Call("Commit", "nil", {}, Args(writer.dev, NullId, NullId, 0)))
    /\ UNCHANGED <<callVars, connected, conns, schemaVars, networks, devices, web_services,
                   vulnerabilities, geolocation_cache, slice, workers, reads, now,
                   faultsLeft>>

\* A reader on another connection selects the ports of the device while the
\* caller is replacing them; `reads` keeps the last such read of either way
\* of replacing.
ReadPorts ==
    /\ connected
    /\ writer.pc # "idle"
    /\ reads' = {o \in reads : o.tx # writer.tx}
                   \cup {[tx |-> writer.tx, pc |-> writer.pc, old |-> writer.old,
                          seen |-> PortsOf(VisiblePorts, writer.dev)]}
    /\ Record(Call("ReadPorts", "nil", {}, Args(writer.dev, NullId, NullId, 0)))
    /\ UNCHANGED <<callVars, connected, conns, schemaVars, rowVars, geolocation_cache, slice,
                   workers, writer, now, faultsLeft>>

\* ------------------------------------------------- scan cool-downs

ScanErr(id, col) ==
    IF ~HasColumn(CurrentSchema, "devices", col) THEN "StorageError"
    ELSE IF id \notin DeviceIdsIn(devices) THEN "NotFound"
    ELSE "nil"

\* The port scan of a device begins: port_scan_started_at is set.
BeginPortScan(id) ==
    /\ connected
    /\ \E err \in {ScanErr(id, "port_scan_started_at")} :
        /\ devices' = IF err = "nil"
                      THEN {IF d.id = id THEN [d EXCEPT !.port_scan_started_at = now,
                                                      !.updated_at = now]
                            ELSE d : d \in devices}
                      ELSE devices
        /\ Record(Call("BeginPortScan", err, {}, Args(id, NullId, NullId, 0)))
    /\ UNCHANGED <<otherVars, connected, conns, schemaVars, networks, ports, web_services,
                   vulnerabilities, now, faultsLeft>>

\* The port scan of a device ends: port_scan_ended_at is set.
FinishPortScan(id) ==
    /\ connected
    /\ \E err \in {ScanErr(id, "port_scan_ended_at")} :
        /\ devices' = IF err = "nil"
                      THEN {IF d.id = id THEN [d EXCEPT !.port_scan_ended_at = now,
                                                      !.updated_at = now]
                            ELSE d : d \in devices}
                      ELSE devices
        /\ Record(Call("FinishPortScan", err, {}, Args(id, NullId, NullId, 0)))
    /\ UNCHANGED <<otherVars, connected, conns, schemaVars, networks, ports, web_services,
                   vulnerabilities, now, faultsLeft>>

\* The web scan of a device ends: web_scan_ended_at is set.
FinishWebScan(id) ==
    /\ connected
    /\ \E err \in {ScanErr(id, "web_scan_ended_at")} :
        /\ devices' = IF err = "nil"
                      THEN {IF d.id = id THEN [d EXCEPT !.web_scan_ended_at = now,
                                                      !.updated_at = now]
                            ELSE d : d \in devices}
                      ELSE devices
        /\ Record(Call("FinishWebScan", err, {}, Args(id, NullId, NullId, 0)))
    /\ UNCHANGED <<otherVars, connected, conns, schemaVars, networks, ports, web_services,
                   vulnerabilities, now, faultsLeft>>

\* A bug the query could have: one window for both kinds of scan, so that a
\* device is eligible only when neither scan is in progress or cooling down.
IsEligibleAnyScanMut(d, kind, t) ==
    /\ IF d.port_scan_ended_at = Null
       THEN d.port_scan_started_at = Null
       ELSE t - d.port_scan_ended_at >= Cooldown
    /\ IF d.web_scan_ended_at = Null
       THEN TRUE
       ELSE t - d.web_scan_ended_at >= Cooldown

\* IsEligible(device, kind, now): a port scan is in progress from its start to
\* its end and cooling down for `Cooldown` after its end; a web scan has an end
\* only.
IsEligible(d, kind, t) ==
    IF kind = "port"
    THEN IF d.port_scan_ended_at = Null
         THEN d.port_scan_started_at = Null
         ELSE t - d.port_scan_ended_at >= Cooldown
    ELSE IF d.web_scan_ended_at = Null
         THEN TRUE
         ELSE t - d.web_scan_ended_at >= Cooldown

\* A bug the reset could have: its first UPDATE also sets updated_at, as the
\* store's other writes do.
FirstUpdateTouchesRowMut(rows, fault) ==
    IF fault \/ "devices" \notin tables
    THEN [ok |-> FALSE, rows |-> rows]
    ELSE [ok |-> TRUE,
          rows |-> {[d EXCEPT !.port_scan_ended_at = Null,
                              !.port_scan_started_at = Null,
                              !.updated_at = now] : d \in rows}]

\* UPDATE devices SET port_scan_ended_at = NULL, port_scan_started_at = NULL:
\* one statement, which clears both columns of every row or, when it fails,
\* changes no row.
FirstUpdate(rows, fault) ==
    IF fault \/ "devices" \notin tables
    THEN [ok |-> FALSE, rows |-> rows]
    ELSE [ok |-> TRUE,
          rows |-> {[d EXCEPT !.port_scan_ended_at = Null,
                              !.port_scan_started_at = Null] : d \in rows}]

\* UPDATE devices SET web_scan_ended_at = NULL: it fails on a table that has
\* no such column yet.
SecondUpdate(rows, fault) ==
    IF fault \/ ~HasColumn(CurrentSchema, "devices", "web_scan_ended_at")
    THEN [ok |-> FALSE, rows |-> rows]
    ELSE [ok |-> TRUE, rows |-> {[d EXCEPT !.web_scan_ended_at = Null] : d \in rows}]

\* A bug the reset could have: the error of the first UPDATE is kept for the
\* return and the second UPDATE is executed all the same.
AfterFirstUpdateGoesOnMut(ok) == 2

\* if err != nil { return ... } after the first UPDATE: the statement the call
\* is at next, 0 when it has returned.
AfterFirstUpdate(ok) == IF ok THEN 2 ELSE 0

\* No ResetPortScanCooldowns call is under way.
NoReset == [pc |-> 0, faults |-> {}, failed |-> {}]

\* ResetPortScanCooldowns(db) is called and runs its first UPDATE, whose error
\* it returns. The two UPDATEs are two db.Exec calls, each committed by
\* itself, with no transaction around them: the store's other writers go on
\* between the first and the second. `faults` are the UPDATEs the engine
\* fails.
ResetPortScanCooldowns(faults) ==
    /\ connected
    /\ reset.pc = 0
    /\ \E r \in {FirstUpdate(devices, 1 \in faults)} :
        LET failed == IF r.ok THEN {} ELSE {1}
        IN  /\ devices' = r.rows
            /\ IF AfterFirstUpdate(r.ok) = 0
               THEN /\ reset' = NoReset
                    /\ Record([Call("ResetPortScanCooldowns", "StorageError", faults,
                                     NoArgs)
                                  EXCEPT !.failed = failed, !.executed = <<1>>])
               ELSE /\ reset' = [pc |-> 2, faults |-> faults, failed |-> failed]
                    /\ UNCHANGED lastOp
    /\ faultsLeft' = faultsLeft - Cardinality(faults)
    /\ UNCHANGED <<sideVars, run, connected, conns, schemaVars, networks, ports,
                   web_services, vulnerabilities, now>>

\* The call under way runs its second UPDATE, logs its error if it has one,
\* and returns: nil whatever the second UPDATE did. `executed` are the UPDATEs
\* the call ran, `failed` those that failed.
ResetSecondUpdate ==
    /\ reset.pc = 2
    /\ \E r \in {SecondUpdate(devices, 2 \in reset.faults)} :
        /\ devices' = r.rows
        /\ Record([Call("ResetPortScanCooldowns",
                         IF 1 \in reset.failed THEN "StorageError" ELSE "nil",
                         reset.faults, NoArgs)
                      EXCEPT !.failed = reset.failed \cup (IF r.ok THEN {} ELSE {2}),
                             !.executed = <<1, 2>>])
    /\ reset' = NoReset
    /\ UNCHANGED <<sideVars, run, connected, conns, schemaVars, networks, ports,
                   web_services, vulnerabilities, now, faultsLeft>>

\* Time passes.
Tick ==
    /\ now < MaxTime
    /\ now' = now + 1
    /\ UNCHANGED <<otherVars, connected, conns, schemaVars, rowVars, faultsLeft, lastOp>>

\* ------------------------------------------------ geolocation cache

\* The column is declared PRIMARY KEY or UNIQUE in its table, which exists.
UniqueColumn(t, col) ==
    /\ t \in tables
    /\ \E s \in TableStmts : s.name = t /\ col \in s.uniq

\* The arguments of Store: ip, data, source, ttl.
GeoArgs(ip, data, source, ttl) == Args(data, ip, source, ttl)

\* Lookup(ip) at time t: a hit needs a row for the ip whose expires_at is later
\* than t.
LookupResult(ip, t) ==
    LET live == {r \in geolocation_cache : r.ip = ip /\ r.expires_at > t}
    IN  IF live = {} THEN NoOut
        ELSE LET r == CHOOSE x \in live : TRUE
             IN  [hit |-> TRUE, data |-> r.data, source |-> r.source]

GeoLookup(ip) ==
    /\ connected
    /\ \E err \in {IF "geolocation_cache" \in tables THEN "nil" ELSE "StorageError"} :
        Record([Call("Lookup", err, {}, GeoArgs(ip, NullId, NullId, 0))
                   EXCEPT !.out = IF err = "nil" THEN LookupResult(ip, now) ELSE NoOut])
    /\ UNCHANGED <<connected, conns, schemaVars, rowVars, otherVars, now, faultsLeft>>

\* Store(ip, data, ttl): upsert-by-ip; every field of the row is overwritten
\* and expires_at is now + ttl.
StoreResult(ip, data, source, ttl) ==
    LET row == [ip |-> ip, data |-> data, source |-> source, expires_at |-> now + ttl]
        kept == IF UniqueColumn("geolocation_cache", "ip")
                THEN {r \in geolocation_cache : r.ip # ip}
                ELSE geolocation_cache
    IN  Outcome(IF "geolocation_cache" \in tables THEN "nil" ELSE "StorageError",
                kept \cup {row}, geolocation_cache)

\* The row of the ip, expired or not, as a Store finds it.
PriorRow(ip) ==
    LET held == {r \in geolocation_cache : r.ip = ip}
    IN  IF held = {} THEN NoOut
        ELSE LET r == CHOOSE x \in held : TRUE
             IN  [hit |-> TRUE, data |-> r.data, source |-> r.source]

GeoStore(ip, data, source, ttl) ==
    /\ connected
    /\ \E r \in {StoreResult(ip, data, source, ttl)} :
        /\ geolocation_cache' = r.rows
        /\ Record([Call("Store", r.err, {}, GeoArgs(ip, data, source, ttl))
                      EXCEPT !.out = PriorRow(ip)])
    /\ UNCHANGED <<callVars, connected, conns, schemaVars, rowVars, slice, procVars, now,
                   faultsLeft>>

\* -------------------------------------------------- ordering by address

Digits == {"0", "1", "2", "3", "4", "5", "6", "7", "8", "9"}

DigitValue(c) ==
    CASE c = "0" -> 0 [] c = "1" -> 1 [] c = "2" -> 2 [] c = "3" -> 3 [] c = "4" -> 4
      [] c = "5" -> 5 [] c = "6" -> 6 [] c = "7" -> 7 [] c = "8" -> 8 [] c = "9" -> 9

\* The fields of a string between its dots.
RECURSIVE Fields(_, _, _)
Fields(str, i, cur) ==
    IF i > Len(str) THEN <<cur>>
    ELSE IF str[i] = "." THEN <<cur>> \o Fields(str, i + 1, <<>>)
    ELSE Fields(str, i + 1, Append(cur, str[i]))

RECURSIVE Decimal(_, _, _)
Decimal(f, i, acc) ==
    IF i > Len(f) THEN acc ELSE Decimal(f, i + 1, acc * 10 + DigitValue(f[i]))

\* One dotted-decimal field: one to three digits, no leading zero, at most 255;
\* -1 when it is none.
Octet(f) ==
    IF \/ Len(f) = 0 \/ Len(f) > 3
       \/ \E i \in 1..Len(f) : f[i] \notin Digits
       \/ (Len(f) > 1 /\ f[1] = "0")
    THEN -1
    ELSE IF Decimal(f, 1, 0) > 255 THEN -1 ELSE Decimal(f, 1, 0)

\* The four octets of a dotted-decimal IPv4 string, <<>> when it does not parse.
ParseIPv4(str) ==
    LET fs == Fields(str, 1, <<>>)
    IN  IF Len(fs) # 4 \/ \E i \in 1..Len(fs) : Octet(fs[i]) = -1
        THEN <<>>
        ELSE [i \in 1..4 |-> Octet(fs[i])]

\* Numeric order of two parsed addresses.
NumericLess(a, b) ==
    \E i \in 1..4 : a[i] < b[i] /\ \A j \in 1..(i - 1) : a[j] = b[j]

\* A bug the comparator could have: an address that does not parse ordered as
\* the smallest instead of the largest.
LessUnparsedFirstMut(x, y) ==
    LET a == ParseIPv4(x.IPv4)
        b == ParseIPv4(y.IPv4)
    IN  IF b = <<>> THEN FALSE
        ELSE IF a = <<>> THEN TRUE
        ELSE NumericLess(a, b)

\* The comparator: parsed addresses in numeric order, an address that does not
\* parse after every one that does.
Less(x, y) ==
    LET a == ParseIPv4(x.IPv4)
        b == ParseIPv4(y.IPv4)
    IN  IF a = <<>> THEN FALSE
        ELSE IF b = <<>> THEN TRUE
        ELSE NumericLess(a, b)

\* x put into a sorted list behind every element it is not less than.
RECURSIVE InsertStable(_, _)
InsertStable(x, sorted) ==
    IF sorted = <<>> THEN <<x>>
    ELSE IF Less(x, Head(sorted)) THEN <<x>> \o sorted
    ELSE <<Head(sorted)>> \o InsertStable(x, Tail(sorted))

\* The stable sort of sortDevicesByIP.
RECURSIVE SortedByIP(_, _)
SortedByIP(list, i) ==
    IF i = 0 THEN <<>> ELSE InsertStable(list[i], SortedByIP(list, i - 1))

sortDevicesByIP ==
    /\ slice' = SortedByIP(slice, Len(slice))
    /\ Record(Call("sortDevicesByIP", "nil", {}, NoArgs))
    /\ UNCHANGED <<callVars, connected, conns, schemaVars, rowVars, geolocation_cache,
                   procVars, now, faultsLeft>>

\* The device lists of n addresses; ID is the device's place in the list.
RECURSIVE ListsOf(_)
ListsOf(n) ==
    IF n = 0 THEN {<<>>}
    ELSE {Append(l, [ID |-> n, IPv4 |-> a]) : l \in ListsOf(n - 1), a \in Addresses}

InputLists == UNION {ListsOf(n) : n \in 0..MaxLen}

InitStore ==
    /\ connected = FALSE
    /\ conns = [c \in ConnIds |-> Closed]
    /\ tables = {}
    /\ added = {}
    /\ indexes = {}
    /\ networks = {}
    /\ devices = {}
    /\ ports = {}
    /\ web_services = {}
    /\ vulnerabilities = {}
    /\ now = 0
    /\ geolocation_cache = {}
    /\ workers = [w \in Workers |-> IdleWorker]
    /\ writer = IdleWriter
    /\ reads = {}
    /\ run = NoRun
    /\ reset = NoReset
    /\ faultsLeft = MaxFaults
    /\ lastOp = NoOp

Init == InitStore /\ slice = <<>>

\* A database file that an earlier start, of this or of an earlier binary,
\* left behind.
InitUpgrade ==
    /\ connected = FALSE
    /\ conns = [c \in ConnIds |-> Closed]
    /\ \E st \in {SchemaAfter(k) : k \in 0..NStmts} :
          tables = st.tables /\ added = st.added /\ indexes = st.indexes
    /\ networks = {}
    /\ devices = {}
    /\ ports = {}
    /\ web_services = {}
    /\ vulnerabilities = {}
    /\ now = 0
    /\ geolocation_cache = {}
    /\ workers = [w \in Workers |-> IdleWorker]
    /\ writer = IdleWriter
    /\ reads = {}
    /\ run = NoRun
    /\ reset = NoReset
    /\ faultsLeft = MaxFaults
    /\ lastOp = NoOp
    /\ slice = <<>>

Connect == \E F \in FaultChoices(Len(Pragmas)) : ConnectToSQLite(F)

\* A call of InitializeSchema; the engine fails at most one statement of one
\* of the calls of a behaviour, and none once it has failed another call.
Migrate ==
    \E F \in FaultChoices(NStmts) :
        (F # {} => faultsLeft = MaxFaults) /\ InitializeSchema(F)

NextSchema == Connect \/ Migrate \/ ExecStatement

SpecSchema == Init /\ [][NextSchema]_vars

\* The store in service: connected and migrated at startup, no engine failure
\* met, then written to through whichever connection the pool hands out.
Startup == ConnectToSQLite({})

\* No InitializeSchema call is under way: the program calls the store's other
\* operations when the migration of its startup has returned.
Quiet == run.pc = 0

MigrateOk ==
    /\ lastOp.op \in {"ConnectToSQLite", "InitializeSchema"}
    /\ InitializeSchema({})

Pool == \E c \in ConnIds : PoolOpen(c) \/ PoolClose(c)

WriteNetwork == \E c \in ConnIds, n \in NetworkIds : InsertNetwork(c, n)

WriteDevice ==
    \E c \in ConnIds, id \in DeviceIds, ip \in IPv4s, n \in NetworkIds \cup {NullId} :
        InsertDevice(c, id, ip, n)

RemoveDevice == \E c \in ConnIds, id \in DeviceIds : DeleteDevice(c, id)

WritePort == \E c \in ConnIds, d \in DeviceIds, n \in PortNumbers : InsertPort(c, d, n)

WriteWebService ==
    \E c \in ConnIds, d \in ScannedDeviceIds, n \in PortNumbers :
        InsertWebService(c, d, n)

WriteVulnerability ==
    \E c \in ConnIds, d \in ScannedDeviceIds \cup {NullId} : InsertVulnerability(c, d)

NextStore ==
    \/ Startup \/ MigrateOk \/ ExecStatement
    \/ Quiet /\ Pool
    \/ Quiet /\ WriteNetwork
    \/ Quiet /\ WriteDevice
    \/ Quiet /\ RemoveDevice
    \/ Quiet /\ WritePort
    \/ Quiet /\ WriteWebService
    \/ Quiet /\ WriteVulnerability

SpecStore == Init /\ [][NextStore]_vars

\* The devices of a store whose callers do not all wait for the migration:
\* InitializeSchema holds no lock between its statements, so a device is
\* written, through a connection of the same pool, while the call is under way
\* as well as after it has returned.
NextDevices ==
    \/ Startup \/ MigrateOk \/ ExecStatement
    \/ Quiet /\ Pool
    \/ Quiet /\ WriteNetwork
    \/ WriteDevice
    \/ Quiet /\ RemoveDevice

SpecDevices == Init /\ [][NextDevices]_vars

\* The devices as a discovery worker first stores them.
IPv4Of(id) == IF id = "d1" THEN "10.0.0.1" ELSE "10.0.0.2"

Discover(ids) ==
    \E c \in ConnIds, id \in ids : conns[c].open /\ InsertDevice(c, id, IPv4Of(id), NullId)

\* A migration at startup in which the engine may fail the statement that
\* adds web_scan_ended_at.
MigrateScanColumns ==
    /\ lastOp.op \in {"ConnectToSQLite", "InitializeSchema"}
    /\ \E F \in {G \in FaultChoices(NStmts) :
                   \A i \in G : Migration[i].name = "web_scan_ended_at"} :
          InitializeSchema(F)

Reset == \E F \in FaultChoices(2) : ResetPortScanCooldowns(F)

\* Scanning and resetting, at one instant, over two devices: the scanners
\* write between the two UPDATEs of a reset as at any other time.
NextReset ==
    \/ Startup \/ MigrateScanColumns \/ ExecStatement
    \/ Quiet /\ Discover(DeviceIds)
    \/ \E id \in DeviceIds :
          Quiet /\ (BeginPortScan(id) \/ FinishPortScan(id) \/ FinishWebScan(id))
    \/ Quiet /\ Reset
    \/ ResetSecondUpdate

SpecReset == Init /\ [][NextReset]_vars

\* Scanning one device as time passes.
NextCooldown ==
    \/ Startup \/ MigrateOk \/ ExecStatement
    \/ Quiet /\ Discover(ScannedDeviceIds)
    \/ \E id \in ScannedDeviceIds :
          Quiet /\ (BeginPortScan(id) \/ FinishPortScan(id) \/ FinishWebScan(id))
    \/ Quiet /\ ResetPortScanCooldowns({})
    \/ ResetSecondUpdate
    \/ Quiet /\ Tick

SpecCooldown == Init /\ [][NextCooldown]_vars

\* The geolocation cache as time passes.
NextGeo ==
    \/ Startup \/ MigrateOk \/ ExecStatement
    \/ Quiet /\ Tick
    \/ \E ip \in GeoIPs : Quiet /\ GeoLookup(ip)
    \/ \E ip \in GeoIPs, data \in GeoData, source \in GeoSources, ttl \in 0..MaxTTL :
          Quiet /\ GeoStore(ip, data, source, ttl)

SpecGeo == Init /\ [][NextGeo]_vars

\* Discovery workers that find one address at the same time, in a migrated
\* store that may hold a device on another address. The program starts its
\* workers when the InitializeSchema of its startup has returned; what devices
\* written between the statements of the migration do to it is in SpecDevices.
NextRace ==
    \/ Startup \/ MigrateOk \/ ExecStatement
    \/ Quiet /\ Pool
    \/ Quiet /\ Discover({"d2"})
    \/ \E w \in Workers : Quiet /\ (WorkerLookup(w) \/ WorkerSkip(w))
    \/ \E w \in Workers, c \in ConnIds : Quiet /\ WorkerInsert(w, c)

SpecRace == Init /\ [][NextRace]_vars

\* A caller replaces the ports of a device while readers select them. Another
\* writer waits for the write lock while a replacement is under way.
SeedPort == writer.pc = "idle" /\ WritePort

NextPorts ==
    \/ Startup \/ MigrateOk \/ ExecStatement
    \/ Quiet /\ Discover(ScannedDeviceIds)
    \/ Quiet /\ SeedPort
    \/ \E dev \in ScannedDeviceIds, tx \in BOOLEAN : Quiet /\ ReplaceBegin(dev, tx)
    \/ ReplaceDelete
    \/ \E n \in NewPortNumbers : ReplaceInsert(n)
    \/ ReplaceCommit
    \/ ReadPorts

SpecPorts == Init /\ [][NextPorts]_vars

\* Starts of the program on a file an earlier start left, with rows written
\* between them and between the statements of a run.
NextUpgrade ==
    \/ Startup \/ Migrate \/ ExecStatement \/ Discover(ScannedDeviceIds)

SpecUpgrade == InitUpgrade /\ [][NextUpgrade]_vars

\* Resets of a store that holds devices and ports, as time passes.
NextFrame ==
    \/ Startup \/ MigrateOk \/ ExecStatement
    \/ Quiet /\ Discover(DeviceIds)
    \/ Quiet /\ WritePort
    \/ \E id \in ScannedDeviceIds :
          Quiet /\ (BeginPortScan(id) \/ FinishPortScan(id) \/ FinishWebScan(id))
    \/ Quiet /\ Reset
    \/ ResetSecondUpdate
    \/ Quiet /\ Tick

SpecFrame == Init /\ [][NextFrame]_vars

\* A listing: any list of devices, sorted.
InitSort == InitStore /\ slice \in InputLists

SpecSort == InitSort /\ [][sortDevicesByIP]_vars

\* ------------------------------------------------ schema migration claims

\* The last call to return was InitializeSchema and no other is under way.
IsMigrationRun == lastOp.op = "InitializeSchema" /\ run.pc = 0

Executed == {lastOp.executed[k] : k \in DOMAIN lastOp.executed}

\* The statements 1..n, in order.
FirstStmts(n) == [k \in 1..n |-> k]

\* What the specification requires of the schema.
RequiredTables ==
    {"networks", "devices", "ports", "event_logs", "system_status", "local_devices",
     "web_services", "geolocation_cache", "vulnerabilities", "settings"}

IPv6IndexNames ==
    {"idx_devices_ipv6_link_local", "idx_devices_ipv6_unique_local",
     "idx_devices_ipv6_global"}

RequiredIndexes ==
    { [name |-> "idx_devices_ipv4", table |-> "devices", col |-> "ipv4", unique |-> TRUE],
      [name |-> "idx_devices_mac", table |-> "devices", col |-> "mac", unique |-> FALSE],
      [name |-> "idx_devices_network_id", table |-> "devices", col |-> "network_id",
       unique |-> FALSE],
      [name |-> "idx_devices_ipv6_link_local", table |-> "devices",
       col |-> "ipv6_link_local", unique |-> FALSE],
      [name |-> "idx_devices_ipv6_unique_local", table |-> "devices",
       col |-> "ipv6_unique_local", unique |-> FALSE],
      [name |-> "idx_devices_ipv6_global", table |-> "devices",
       col |-> "ipv6_global", unique |-> FALSE],
      [name |-> "idx_web_services_device_id", table |-> "web_services",
       col |-> "device_id", unique |-> FALSE],
      [name |-> "idx_vulnerabilities_device_id", table |-> "vulnerabilities",
       col |-> "device_id", unique |-> FALSE],
      [name |-> "idx_geolocation_cache_ip", table |-> "geolocation_cache",
       col |-> "ip", unique |-> FALSE],
      [name |-> "idx_geolocation_cache_expires_at", table |-> "geolocation_cache",
       col |-> "expires_at", unique |-> FALSE],
      [name |-> "idx_settings_user_id", table |-> "settings", col |-> "user_id",
       unique |-> FALSE] }

\* Statement i creates a required table or a required index.
CreatesRequired(i) ==
    \/ Migration[i].kind = "table" /\ Migration[i].name \in RequiredTables
    \/ Migration[i].kind = "index"
         /\ Migration[i].name \in {ix.name : ix \in RequiredIndexes}

\* The same, the three IPv6 indexes left out.
CreatesRequiredNotIPv6(i) ==
    CreatesRequired(i) /\ Migration[i].name \notin IPv6IndexNames

AddsOptionalColumn(i) == Migration[i].kind = "column"

\* The run stopped at statement i: its error was returned, no later statement
\* was executed, and nothing a later statement creates was created.
AbortedAt(i) ==
    /\ lastOp.err = "SchemaError"
    /\ lastOp.at = i
    /\ lastOp.executed = FirstStmts(i)
    /\ \A j \in (i + 1)..NStmts :
          /\ Migration[j].kind = "table" /\ Migration[j].name \in tables
                => Migration[j].name \in lastOp.pre.tables
          /\ Migration[j].kind = "column" /\ <<Migration[j].table, Migration[j].col>> \in added
                => <<Migration[j].table, Migration[j].col>> \in lastOp.pre.added
          /\ Migration[j].kind = "index" /\ Migration[j].name \in IndexNames(CurrentSchema)
                => Migration[j].name \in IndexNames(lastOp.pre)

\* The schema after the step.
PostSchema == Schema(tables', added', indexes')

\* The step in which the InitializeSchema call under way returns.
Returns == run.pc # 0 /\ run'.pc = 0

\* The step is a call of the operation, start to return: a step that is part
\* of a migration or of a reset, or in which only time passes, records no call
\* and leaves the last one standing.
IsCallOf(name) == lastOp'.op = name /\ UNCHANGED <<run, reset, now>>

\* C1 (as claimed): when a call that met no engine failure returned nil, a
\* second call right after it, meeting no engine failure either, returns nil
\* and leaves the tables, columns and indexes as it found them, which is as
\* the first call left them.
C1_SecondCallChangesNothing ==
    [][ ( /\ lastOp.op = "InitializeSchema" /\ lastOp.err = "nil" /\ lastOp.faults = {}
          /\ Returns /\ run.faults = {} )
        => lastOp'.err = "nil" /\ PostSchema = run.pre ]_vars

\* C2 (as claimed): after one call that met no engine failure and returned
\* nil, every required index exists, the three IPv6 indexes among them.
C2_AllRequiredIndexesAfterOneCall ==
    (IsMigrationRun /\ lastOp.err = "nil" /\ lastOp.faults = {})
    => RequiredIndexes \subseteq indexes

\* C4 (as claimed): a failing statement that creates a required table or any
\* required index makes the call return its error at that statement, with no
\* later statement executed.
C4_AnyRequiredFailureAborts ==
    IsMigrationRun =>
        \A i \in lastOp.failed : CreatesRequired(i) => AbortedAt(i)

\* C5: a failing ADD COLUMN statement never stops the run (the statement after
\* it is executed and its error is not the call's error), and a run in which
\* no statement creating a required table or a mandatory index fails executes
\* all statements in order and returns nil.
C5_ColumnFailureDoesNotHalt ==
    IsMigrationRun =>
        /\ \A i \in lastOp.failed :
              AddsOptionalColumn(i) => lastOp.at # i /\ (i + 1) \in Executed
        /\ (\A i \in lastOp.failed : ~CreatesRequiredNotIPv6(i))
              => lastOp.err = "nil" /\ lastOp.executed = FirstStmts(NStmts)

\* C5 witness: ADD COLUMN failed for a column that already exists and for one
\* the engine failed, and the run still executed every statement and returned nil.
C5_Witness ==
    /\ IsMigrationRun
    /\ \E i, j \in lastOp.failed :
          /\ AddsOptionalColumn(i) /\ i \in lastOp.faults
          /\ AddsOptionalColumn(j) /\ j \notin lastOp.faults
    /\ lastOp.err = "nil"
    /\ lastOp.executed = FirstStmts(NStmts)

\* --------------------------------------------------- store claims

NoTwoDevicesShareIPv4 == \A a, b \in devices : a.ipv4 = b.ipv4 => a = b

\* C3: a call of InitializeSchema that returned nil left the UNIQUE index on
\* devices.ipv4 in place, and the index is never lost. Where the index is in
\* place no two device rows hold the same IPv4; an insert whose IPv4 a row
\* with another id holds fails with ConflictError and changes no row; an insert
\* whose IPv4 the row with the same id holds is no conflict and, when it
\* succeeds, keeps that one row under its id and adds none.
C3_OneDevicePerIPv4 ==
    [][ /\ (lastOp'.op = "InitializeSchema" /\ lastOp'.err = "nil" /\ run'.pc = 0)
            => UniqueOn("devices", "ipv4")'
        /\ UniqueOn("devices", "ipv4") => UniqueOn("devices", "ipv4")'
        /\ UniqueOn("devices", "ipv4")' => NoTwoDevicesShareIPv4'
        /\ (UniqueOn("devices", "ipv4") /\ IsCallOf("InsertDevice")) =>
            /\ (\E d \in devices : d.ipv4 = lastOp'.args.ipv4 /\ d.id # lastOp'.args.id)
                  => lastOp'.err = "ConflictError" /\ UNCHANGED rowVars
            /\ (\E d \in devices : d.ipv4 = lastOp'.args.ipv4 /\ d.id = lastOp'.args.id)
                  => /\ lastOp'.err # "ConflictError"
                     /\ lastOp'.err = "nil" =>
                          /\ DeviceIdsIn(devices') = DeviceIdsIn(devices)
                          /\ Cardinality(devices') = Cardinality(devices)
                          /\ \A d \in devices' :
                                d.ipv4 = lastOp'.args.ipv4 => d.id = lastOp'.args.id
      ]_vars

\* C3 witness: two devices are stored and the last insert, of an IPv4 that the
\* other device holds, was refused with ConflictError.
C3_Witness ==
    /\ lastOp.op = "InsertDevice"
    /\ lastOp.err = "ConflictError"
    /\ Cardinality(devices) = 2
    /\ \E d \in devices : d.ipv4 = lastOp.args.ipv4 /\ d.id # lastOp.args.id
    /\ \E d \in devices : d.id = lastOp.args.id

ReferentialIntegrity ==
    /\ \A d \in devices : d.network_id # NullId => d.network_id \in networks
    /\ \A p \in ports : p.device_id \in DeviceIdsIn(devices)
    /\ \A w \in web_services : w.device_id \in DeviceIdsIn(devices)
    /\ \A v \in vulnerabilities :
          v.device_id # NullId => v.device_id \in DeviceIdsIn(devices)

\* C10 (as claimed): whichever connection of the pool a write goes through,
\* every non-NULL devices.network_id names a network and every device_id of
\* ports, web_services and vulnerabilities names a device, and the last write,
\* if it named a network or device that does not exist, was refused with
\* ReferentialIntegrityError.
C10_ReferentialIntegrity ==
    /\ ReferentialIntegrity
    /\ ( /\ lastOp.op \in {"InsertPort", "InsertWebService", "InsertVulnerability"}
         /\ lastOp.args.ref # NullId
         /\ lastOp.args.ref \notin DeviceIdsIn(devices)
         /\ lastOp.err # "StorageError" )
       => lastOp.err = "ReferentialIntegrityError"

\* --------------------------------------------------- cool-down claims

ScanStampsCleared(d) ==
    /\ d.port_scan_started_at = Null
    /\ d.port_scan_ended_at = Null
    /\ d.web_scan_ended_at = Null

\* C7 (as claimed): when ResetPortScanCooldowns has returned nil, every device
\* has its three scan timestamps cleared and is eligible for a port scan and
\* for a web scan at once; and it returns nil when the devices table has no
\* web_scan_ended_at column yet and its first UPDATE did not fail.
C7_ResetClearsEveryDevice ==
    lastOp.op = "ResetPortScanCooldowns" =>
        /\ lastOp.err = "nil" =>
              \A d \in devices :
                  /\ ScanStampsCleared(d)
                  /\ IsEligible(d, "port", now)
                  /\ IsEligible(d, "web", now)
        /\ ( /\ 1 \notin lastOp.failed
             /\ ~HasColumn(CurrentSchema, "devices", "web_scan_ended_at") )
              => lastOp.err = "nil"

\* The values a scan timestamp can hold.
Stamps == (0..MaxTime) \cup {Null}

\* The device with id `id` answers the eligibility query for `kind` alike in
\* two sets of device rows.
SameEligibility(kind, before, after, t) ==
    \A d \in before, e \in after :
        d.id = e.id => (IsEligible(d, kind, t) <=> IsEligible(e, kind, t))

\* What the port-scan timestamps of a device say about its eligibility.
PortScanRule(d, t) ==
    /\ (d.port_scan_started_at # Null /\ d.port_scan_ended_at = Null)
          => ~IsEligible(d, "port", t)
    /\ (d.port_scan_ended_at # Null /\ t - d.port_scan_ended_at < Cooldown)
          => ~IsEligible(d, "port", t)
    /\ (d.port_scan_ended_at # Null /\ t > d.port_scan_ended_at + Cooldown)
          => IsEligible(d, "port", t)

\* C8: for every device at every time, a port scan is not eligible while
\* port_scan_started_at is set and port_scan_ended_at is not, nor while
\* now - port_scan_ended_at is less than the cool-down, and is eligible once
\* now exceeds port_scan_ended_at + cool-down; the answer for a web scan does
\* not depend on the port-scan timestamps nor the answer for a port scan on
\* web_scan_ended_at, so a step that stamps port-scan times leaves the
\* web-scan eligibility of every device as it was, and the other way round.
C8_PortAndWebEligibility ==
    [][ /\ \A d \in devices' : \A t \in now'..MaxTime :
              /\ PortScanRule(d, t)
              /\ \A s \in Stamps, e \in Stamps :
                    IsEligible([d EXCEPT !.port_scan_started_at = s,
                                         !.port_scan_ended_at = e], "web", t)
                        <=> IsEligible(d, "web", t)
              /\ \A w \in Stamps :
                    IsEligible([d EXCEPT !.web_scan_ended_at = w], "port", t)
                        <=> IsEligible(d, "port", t)
        /\ (IsCallOf("BeginPortScan") \/ IsCallOf("FinishPortScan"))
              => SameEligibility("web", devices, devices', now')
        /\ IsCallOf("FinishWebScan")
              => SameEligibility("port", devices, devices', now')
      ]_vars

\* C8 witness: a web scan of a device has just ended and its port scan ended
\* more than a cool-down ago: it is eligible for a port scan and not for a web
\* scan.
C8_Witness ==
    /\ lastOp.op = "FinishWebScan"
    /\ lastOp.err = "nil"
    /\ \E d \in devices :
          /\ d.id = lastOp.args.id
          /\ d.port_scan_started_at # Null
          /\ d.port_scan_ended_at # Null
          /\ now > d.port_scan_ended_at + Cooldown
          /\ IsEligible(d, "port", now)
          /\ d.web_scan_ended_at = now
          /\ ~IsEligible(d, "web", now)

\* ------------------------------------------------ geolocation cache claims

\* C9: Lookup(ip) returns a hit exactly when the cache holds a row for the ip
\* whose expires_at is later than the time of the lookup, so a row that has
\* expired is a miss though it is still there; and a Lookup(ip) that follows
\* Store(ip, data, ttl) at a time before the time of the store + ttl is a hit
\* with the data just stored.
C9_LookupHitsUnexpired ==
    [][ /\ (lastOp'.op = "Lookup" /\ lastOp'.err = "nil")
              => (lastOp'.out.hit <=>
                    \E r \in geolocation_cache' :
                        r.ip = lastOp'.args.ipv4 /\ r.expires_at > lastOp'.time)
        /\ ( /\ lastOp.op = "Store" /\ lastOp.err = "nil"
             /\ lastOp'.op = "Lookup" /\ lastOp'.err = "nil"
             /\ lastOp'.args.ipv4 = lastOp.args.ipv4
             /\ lastOp'.time < lastOp.time + lastOp.args.number )
              => /\ lastOp'.out.hit
                 /\ lastOp'.out.data = lastOp.args.id
                 /\ lastOp'.out.source = lastOp.args.ref
      ]_vars

\* C9 witness: a lookup has missed on an ip whose row, stored with a positive
\* time-to-live, is still in the cache and has expired.
C9_Witness ==
    /\ lastOp.op = "Lookup"
    /\ lastOp.err = "nil"
    /\ ~lastOp.out.hit
    /\ \E r \in geolocation_cache :
          /\ r.ip = lastOp.args.ipv4
          /\ r.expires_at > 0
          /\ r.expires_at <= lastOp.time

\* ------------------------------------------------------ ordering claims

Parses(d) == ParseIPv4(d.IPv4) # <<>>

\* C6: for every list of devices, sortDevicesByIP returns no error and leaves
\* a permutation of the list in which every address that parses comes before
\* every one that does not, those that parse are in ascending numeric order
\* and those that do not are in the order they had in the input.
C6_SortPlacesUnparseableLast ==
    [][ (lastOp.op = "none" /\ lastOp'.op = "sortDevicesByIP") =>
          /\ lastOp'.err = "nil"
          /\ Len(slice') = Len(slice)
          /\ \A i \in 1..Len(slice) : \E j \in 1..Len(slice') : slice'[j] = slice[i]
          /\ \A i \in 1..Len(slice'), j \in 1..Len(slice') :
                i < j =>
                  /\ Parses(slice'[j]) => Parses(slice'[i])
                  /\ (Parses(slice'[i]) /\ Parses(slice'[j]))
                        => ~NumericLess(ParseIPv4(slice'[j].IPv4),
                                        ParseIPv4(slice'[i].IPv4))
                  /\ (~Parses(slice'[i]) /\ ~Parses(slice'[j]))
                        => slice'[i].ID < slice'[j].ID
      ]_vars

\* C6 witness: a list of four has been sorted: two addresses that parse, which
\* stood in descending order behind an address that does not parse, now lead
\* in ascending order, and two different addresses that do not parse follow
\* in the order they had.
C6_Witness ==
    /\ lastOp.op = "sortDevicesByIP"
    /\ Len(slice) = 4
    /\ Parses(slice[1]) /\ Parses(slice[2])
    /\ NumericLess(ParseIPv4(slice[1].IPv4), ParseIPv4(slice[2].IPv4))
    /\ slice[1].ID > slice[2].ID
    /\ ~Parses(slice[3]) /\ ~Parses(slice[4])
    /\ slice[3].IPv4 # slice[4].IPv4
    /\ slice[3].ID = 1

\* ---------------------------------------------------- concurrency claims

\* The workers whose insert has returned.
Inserted == {w \in Workers : workers[w].pc = "done" /\ workers[w].err # NullId}

HoldersOf(ipv4) == {d \in devices : d.ipv4 = ipv4}

\* C11: when discovery workers insert devices with one IPv4 and different ids
\* at the same time, then in whatever order the store runs the inserts and
\* through whichever connections, exactly one insert returns nil, every other
\* one returns ConflictError, and the store holds exactly one device row for
\* the IPv4, the one of the worker whose insert returned nil.
C11_OneRacingInsertWins ==
    /\ Cardinality(HoldersOf(RaceIPv4)) <= 1
    /\ Inserted # {} =>
          /\ \E w \in Inserted :
                /\ workers[w].err = "nil"
                /\ \A v \in Inserted \ {w} : workers[v].err = "ConflictError"
                /\ {d.id : d \in HoldersOf(RaceIPv4)} = {WorkerDeviceIds[w]}

\* C11 witness: every worker found the address absent and has inserted, and
\* the last of the inserts was refused with ConflictError.
C11_Witness ==
    /\ Inserted = Workers
    /\ Cardinality(Workers) >= 2
    /\ lastOp.op = "InsertDevice"
    /\ lastOp.err = "ConflictError"
    /\ Cardinality(HoldersOf(RaceIPv4)) = 1

\* C12: while a caller replaces the ports of a device by deleting them all
\* and inserting the new set, a reader sees, if the caller does both inside
\* one transaction, the whole old set or the whole new set and never an empty
\* or partial one; a caller that uses no transaction lets a reader see the
\* empty set in between, which the witness reaches.
C12_ReplaceAtomicInTransaction ==
    \A o \in reads : o.tx => o.seen \in {o.old, NewPortNumbers}

\* C12 witness: of two reads of a device that had ports, one, made after the
\* delete of a replacement inside a transaction, saw the old set, and one,
\* made after the delete of a replacement without a transaction, saw no ports.
C12_Witness ==
    /\ \E o \in reads :
          o.tx /\ o.pc \in {"insert", "commit"} /\ o.old # {} /\ o.seen = o.old
    /\ \E o \in reads :
          ~o.tx /\ o.pc = "insert" /\ o.old # {} /\ o.seen = {}

\* ------------------------------------------------ schema evolution claims


\* Statement i creates a table or an index that the schema st already has.
CreatesExisting(i, st) ==
    \/ Migration[i].kind = "table" /\ Migration[i].name \in st.tables
    \/ Migration[i].kind = "index" /\ Migration[i].name \in IndexNames(st)

\* C13: InitializeSchema only adds. From every store, whether the call
\* returns nil or an error, no step of the call (its start, each of its
\* statements) removes a table, column or index or changes a row of any table,
\* so that every table, column and index the call found is there when it
\* returns; and a statement that creates a table or index which the call found
\* changes nothing and fails only if the engine fails it.
C13_MigrationOnlyAdds ==
    [][ /\ run' # run =>
              /\ tables \subseteq tables'
              /\ Columns(CurrentSchema) \subseteq Columns(PostSchema)
              /\ indexes \subseteq indexes'
              /\ UNCHANGED <<rowVars, geolocation_cache>>
        /\ Returns =>
              /\ lastOp'.op = "InitializeSchema"
              /\ lastOp'.pre = run.pre
              /\ run.pre.tables \subseteq tables'
              /\ Columns(run.pre) \subseteq Columns(PostSchema)
              /\ run.pre.indexes \subseteq indexes'
              /\ \A k \in DOMAIN lastOp'.executed :
                    LET i == lastOp'.executed[k]
                    IN  (CreatesExisting(i, run.pre) /\ i \notin run.faults)
                            => i \notin lastOp'.failed
      ]_vars

\* C13 witness: a call on a store that had tables and a device row returned
\* nil, added to the schema, ran statements that create what was there
\* already, and the device row is still there.
C13_Witness ==
    /\ IsMigrationRun
    /\ lastOp.err = "nil"
    /\ lastOp.pre.tables # {}
    /\ lastOp.pre # CurrentSchema
    /\ devices # {}
    /\ \E i \in Executed : CreatesExisting(i, lastOp.pre) /\ Migration[i].kind = "table"
    /\ \E i \in Executed : CreatesExisting(i, lastOp.pre) /\ Migration[i].kind = "index"

\* ------------------------------------------------- cache row claims

RowsOf(rows, ip) == {r \in rows : r.ip = ip}

\* C14: the geolocation cache never holds two rows for one IP. A Store on an
\* IP leaves exactly the row [ip, data, source, expires_at = time of the
\* store + ttl] for it, whether or not the IP had a row and whether or not
\* that row had expired, and leaves the rows of every other IP as they were.
C14_OneCacheRowPerIP ==
    [][ /\ \A ip \in GeoIPs : Cardinality(RowsOf(geolocation_cache', ip)) <= 1
        /\ (lastOp'.op = "Store" /\ lastOp'.err = "nil") =>
              /\ RowsOf(geolocation_cache', lastOp'.args.ipv4)
                    = {[ip |-> lastOp'.args.ipv4, data |-> lastOp'.args.id,
                        source |-> lastOp'.args.ref,
                        expires_at |-> lastOp'.time + lastOp'.args.number]}
              /\ \A ip \in GeoIPs \ {lastOp'.args.ipv4} :
                    RowsOf(geolocation_cache', ip) = RowsOf(geolocation_cache, ip)
      ]_vars

\* C14 witness: a Store, made after time has passed, found a row for its IP
\* with other data and another source and overwrote it; the cache holds that
\* one row for the IP and the row of the other IP.
C14_Witness ==
    /\ lastOp.op = "Store"
    /\ lastOp.err = "nil"
    /\ lastOp.time > 0
    /\ lastOp.out.hit
    /\ lastOp.out.source # lastOp.args.ref
    /\ lastOp.out.data # lastOp.args.id
    /\ Cardinality(RowsOf(geolocation_cache, lastOp.args.ipv4)) = 1
    /\ Cardinality(geolocation_cache) = 2

\* ------------------------------------------------- convergence claims

\* The last call was a run of the migration that no engine failure met.
CleanRun == IsMigrationRun /\ lastOp.faults = {}

\* C15: the migration converges. From every store that an earlier start left,
\* holding no two devices on one address, a call that meets no engine failure
\* returns nil, also when devices are written between its statements; two such
\* calls in a row end in the schema of every declared table, column and index,
\* whatever the store was at the start; a call that returns with the schema it
\* found had the declared schema before it; and from that schema no step of a
\* further call changes anything. No store ever has a table, column or index
\* that is not declared.
C15_MigrationConverges ==
    [][ /\ tables' \subseteq DeclaredSchema.tables
        /\ added' \subseteq DeclaredSchema.added
        /\ indexes' \subseteq DeclaredSchema.indexes
        /\ (Returns /\ run.faults = {}) =>
              /\ lastOp'.err = "nil"
              /\ run.pre = PostSchema => PostSchema = DeclaredSchema
              /\ ( /\ lastOp.op = "InitializeSchema" /\ lastOp.faults = {}
                   /\ lastOp.err = "nil" ) => PostSchema = DeclaredSchema
        /\ (run' # run /\ CurrentSchema = DeclaredSchema) => UNCHANGED schemaVars
      ]_vars

\* C15 witness: on a store that an earlier start left with tables, the second
\* of two runs in a row that met no engine failure has returned nil; it
\* created an IPv6 index the first could not, and the schema is the declared
\* one.
C15_Witness ==
    /\ CleanRun
    /\ lastOp.err = "nil"
    /\ lastOp.pre.tables # {}
    /\ lastOp.pre # CurrentSchema
    /\ \E ix \in indexes :
          ix.name \in IPv6IndexNames /\ ix.name \notin IndexNames(lastOp.pre)
    /\ CurrentSchema = DeclaredSchema
    /\ devices # {}

\* ------------------------------------------------------- reset claims

\* A device row without its three scan timestamps.
Unstamped(d) ==
    [d EXCEPT !.port_scan_started_at = Null, !.port_scan_ended_at = Null,
              !.web_scan_ended_at = Null]

IsReset(op) == op.op = "ResetPortScanCooldowns"

\* A step of a ResetPortScanCooldowns call: one that moves it on, or the one
\* in which it is called and returns the error of its first UPDATE.
ResetStep == reset' # reset \/ IsCallOf("ResetPortScanCooldowns")

\* The step in which a ResetPortScanCooldowns call returns.
ResetReturns ==
    \/ reset.pc # 0 /\ reset'.pc = 0
    \/ IsCallOf("ResetPortScanCooldowns")

\* C16: ResetPortScanCooldowns changes nothing but port_scan_started_at,
\* port_scan_ended_at and web_scan_ended_at of device rows: after each of its
\* steps the devices are the devices before it, each with its id, ipv4,
\* status, network_id and updated_at as they were, and networks, ports, web
\* services, vulnerabilities, the geolocation cache and the schema are as
\* they were.
C16_ResetTouchesOnlyScanStamps ==
    [][ ResetStep =>
          /\ {Unstamped(d) : d \in devices'} = {Unstamped(d) : d \in devices}
          /\ Cardinality(devices') = Cardinality(devices)
          /\ \A d \in devices : \E e \in devices' :
                /\ e.id = d.id /\ e.ipv4 = d.ipv4 /\ e.status = d.status
                /\ e.network_id = d.network_id /\ e.updated_at = d.updated_at
          /\ UNCHANGED <<networks, ports, web_services, vulnerabilities,
                         geolocation_cache, schemaVars>>
      ]_vars

\* C16 witness: some time after two devices were stored and one was scanned, a
\* reset returned nil and cleared its scan timestamps; both devices and a
\* port are in the store.
C16_Witness ==
    /\ IsReset(lastOp)
    /\ lastOp.err = "nil"
    /\ lastOp.failed = {}
    /\ Cardinality(devices) = 2
    /\ ports # {}
    /\ \E d \in devices : d.updated_at < lastOp.time /\ d.updated_at > 0
    /\ \A d \in devices : ScanStampsCleared(d)

\* C17: when the UPDATE that clears the port-scan timestamps fails,
\* ResetPortScanCooldowns returns an error and does not execute the UPDATE
\* of web_scan_ended_at; a call that returns an error returns it in its first
\* step, having executed the first UPDATE only and changed no device row.
C17_FailedResetChangesNothing ==
    [][ ResetReturns =>
          /\ IsReset(lastOp')
          /\ 1 \in lastOp'.failed => lastOp'.err # "nil"
          /\ lastOp'.err # "nil" =>
                /\ lastOp'.executed = <<1>>
                /\ 1 \in lastOp'.failed
                /\ reset.pc = 0
                /\ UNCHANGED devices
      ]_vars

\* C17 witness: a reset whose first UPDATE the engine failed has returned an
\* error, and a device still has the web-scan and port-scan timestamps that
\* the call, had it gone on, would have cleared.
C17_Witness ==
    /\ IsReset(lastOp)
    /\ lastOp.err = "StorageError"
    /\ lastOp.faults = {1}
    /\ HasColumn(CurrentSchema, "devices", "web_scan_ended_at")
    /\ \E d \in devices :
          /\ d.web_scan_ended_at # Null
          /\ d.port_scan_started_at # Null
          /\ d.port_scan_ended_at # Null

====
